---- MODULE Spec2Model ----
(***************************************************************************)
(* Model of the tinypid controllers (Controller, PIController,             *)
(* AntiWindupController, TrackingController) over a binary floating-point  *)
(* format that is float32 scaled down: the same structure (significand of  *)
(* Precision bits, gradual underflow, round to nearest-even, overflow to   *)
(* +Inf/-Inf, NaN), with fewer significand bits and fewer binades.         *)
(*                                                                         *)
(* A float is an integer: a finite value v is stored as v * 2^FracBits     *)
(* (one unit = the smallest positive subnormal); PosInf, NegInf and NaN    *)
(* are three integers outside the finite range.  The sign of zero is not   *)
(* modelled (-0 and +0 compare equal in Go).                               *)
(***************************************************************************)
EXTENDS Integers, Sequences, FiniteSets, TLC

\* ------------------------------------------------------------------------
\* The floating-point format
\* ------------------------------------------------------------------------
Precision == 8       \* significand bits (float32: 24)
FracBits == 11       \* smallest positive value is 2^-FracBits (float32: 2^-149)
Emax == 7            \* finite values are below 2^(Emax+1) (float32: 127)

Pow2Tab == [k \in 0..30 |-> 2^k]
Pow2(k) == Pow2Tab[k]

\* exponent (in units) of the last place of the largest binade
MaxShift == FracBits + Emax + 1 - Precision

\* float32.go: 0x1p127 * (1 + (1 - 0x1p-23)) = (2^24 - 1) * 2^104, the
\* largest finite value: an all-ones significand in the largest binade.
MaxFloat32 == (Pow2(Precision) - 1) * Pow2(MaxShift)

PosInf == Pow2(Precision + 1) * Pow2(MaxShift)
NegInf == -PosInf
NaN == PosInf + 1

IsNaN(f) == f = NaN
IsInf(f) == f = PosInf \/ f = NegInf
IsFinite(f) == ~IsNaN(f) /\ ~IsInf(f)

\* Abs clears the sign bit (a NaN stays a NaN)
Abs(x) == IF IsNaN(x) THEN NaN ELSE IF x < 0 THEN -x ELSE x

Sign(x) == IF x < 0 THEN -1 ELSE 1

\* number of bits of n, 0 < n < 2^30
BitLen[n \in Nat] == CHOOSE k \in 1..30 : Pow2(k - 1) <= n /\ n < Pow2(k)

\* The magnitude n * 2^e units (n >= 0) rounded to the nearest float, ties to
\* even; PosInf when the rounded value exceeds MaxFloat32.
RoundMag[n \in Nat, e \in Int] ==
  IF n = 0 THEN 0
  ELSE LET L == BitLen[n]
           k0 == L + e - Precision
           k == IF k0 < 0 THEN 0 ELSE k0
           r == k - e
       IN IF k > MaxShift THEN PosInf
          ELSE IF r <= 0 THEN n * Pow2(-r) * Pow2(k)
          ELSE IF r > 30 THEN 0
          ELSE LET q == n \div Pow2(r)
                   rem == n % Pow2(r)
                   half == Pow2(r - 1)
                   m == IF rem > half \/ (rem = half /\ q % 2 = 1)
                        THEN q + 1 ELSE q
                   res == m * Pow2(k)
               IN IF res > MaxFloat32 THEN PosInf ELSE res

\* a finite nonzero float as significand * 2^shift units
Shift[a \in Int] == LET L == BitLen[Abs(a)] IN IF L > Precision THEN L - Precision ELSE 0
Mant[a \in Int] == Abs(a) \div Pow2(Shift[a])

\* Go float32 arithmetic (IEEE 754, round to nearest-even), each operation
\* rounded on its own.  The operations are functions, so that TLC evaluates
\* an operand once.
FNeg[a \in Int] == IF IsNaN(a) THEN NaN ELSE -a

FAdd[a \in Int, b \in Int] ==
  IF IsNaN(a) \/ IsNaN(b) THEN NaN
  ELSE IF IsInf(a) /\ IsInf(b) THEN (IF a = b THEN a ELSE NaN)
  ELSE IF IsInf(a) THEN a
  ELSE IF IsInf(b) THEN b
  ELSE LET s == a + b IN Sign(s) * RoundMag[Abs(s), 0]

FSub[a \in Int, b \in Int] == FAdd[a, FNeg[b]]

FMul[a \in Int, b \in Int] ==
  IF IsNaN(a) \/ IsNaN(b) THEN NaN
  ELSE IF IsInf(a) \/ IsInf(b)
       THEN (IF a = 0 \/ b = 0 THEN NaN ELSE Sign(a) * Sign(b) * PosInf)
  ELSE IF a = 0 \/ b = 0 THEN 0
  ELSE Sign(a) * Sign(b) *
       RoundMag[Mant[a] * Mant[b], Shift[a] + Shift[b] - FracBits]

FDiv[a \in Int, b \in Int] ==
  IF IsNaN(a) \/ IsNaN(b) THEN NaN
  ELSE IF IsInf(a) THEN (IF IsInf(b) THEN NaN ELSE Sign(a) * Sign(b) * PosInf)
  ELSE IF IsInf(b) THEN 0
  ELSE IF b = 0 THEN (IF a = 0 THEN NaN ELSE Sign(a) * PosInf)
  ELSE IF a = 0 THEN 0
  ELSE LET X == 2 * Precision + 2
           num == Mant[a] * Pow2(X)
           q == num \div Mant[b]
           sticky == IF num % Mant[b] = 0 THEN 0 ELSE 1
       IN Sign(a) * Sign(b) *
          RoundMag[2 * q + sticky, Shift[a] - Shift[b] + FracBits - X - 1]

\* Go's built-in min and max on floats: a NaN argument gives NaN
FMin[a \in Int, b \in Int] == IF IsNaN(a) \/ IsNaN(b) THEN NaN ELSE IF a < b THEN a ELSE b
FMax[a \in Int, b \in Int] == IF IsNaN(a) \/ IsNaN(b) THEN NaN ELSE IF a > b THEN a ELSE b

\* Go's comparison operators: false as soon as an operand is NaN
FLe(a, b) == ~IsNaN(a) /\ ~IsNaN(b) /\ a <= b
FLt(a, b) == ~IsNaN(a) /\ ~IsNaN(b) /\ a < b

\* the float of a small integer literal or input (2.0, 10, ...)
F[n \in Int] == Sign(n) * RoundMag[Abs(n) * Pow2(FracBits), 0]

\* ------------------------------------------------------------------------
\* time.Duration and seconds[]
\* ------------------------------------------------------------------------
NanosPerSecond == 1000000000             \* float32.go: the divisor 1e9
Millisecond == 1000000                   \* time.Millisecond, in nanoseconds
Second == 1000 * Millisecond

\* nbits more bits of the binary expansion of r / den (r < den): <<bits, rest>>
RECURSIVE LongDiv(_, _, _, _)
LongDiv(r, den, nbits, acc) ==
  IF nbits = 0 THEN <<acc, r>>
  ELSE IF 2 * r >= den THEN LongDiv(2 * r - den, den, nbits - 1, 2 * acc + 1)
       ELSE LongDiv(2 * r, den, nbits - 1, 2 * acc)

\* seconds[d] = float32(d) / 1e9 for a Duration d >= 0 (int64 nanoseconds).
\* Every Duration the model uses and 1e9 are exactly representable in
\* float32, so the code's quotient is d / 1e9 rounded once, as here.
seconds[d \in Nat] ==
  LET B == FracBits + 3
      ld == LongDiv(d % NanosPerSecond, NanosPerSecond, B, 0)
      n == (d \div NanosPerSecond) * Pow2(B) + ld[1]
      sticky == IF ld[2] = 0 THEN 0 ELSE 1
  IN RoundMag[2 * n + sticky, FracBits - B - 1]

\* clamp to [-MaxFloat32, MaxFloat32]: max(-MaxFloat32, min(MaxFloat32, x))
ClampFloat32(x) == FMax[FNeg[MaxFloat32], FMin[MaxFloat32, x]]

\* ------------------------------------------------------------------------
\* Controller (controller.go)
\* ------------------------------------------------------------------------
ControllerState0 ==
  [ControlError |-> 0, ControlErrorIntegral |-> 0,
   ControlErrorDerivative |-> 0, ControlSignal |-> 0]

\* mutant: the integral accumulates the error without the sampling interval
ControllerUpdate_SumsError(c, s, input) ==
  LET previousError == s.ControlError
      e == FSub[input.ReferenceSignal, input.ActualSignal]
      d == FDiv[FSub[e, previousError], seconds[input.SamplingInterval]]
      i == FAdd[s.ControlErrorIntegral, e]
  IN [ControlError |-> e,
      ControlErrorDerivative |-> d,
      ControlErrorIntegral |-> i,
      ControlSignal |-> FAdd[FAdd[FMul[c.ProportionalGain, e],
                                  FMul[c.IntegralGain, i]],
                             FMul[c.DerivativeGain, d]]]

ControllerUpdate(c, s, input) ==
  LET previousError == s.ControlError
      e == FSub[input.ReferenceSignal, input.ActualSignal]
      d == FDiv[FSub[e, previousError], seconds[input.SamplingInterval]]
      i == FAdd[s.ControlErrorIntegral, FMul[e, seconds[input.SamplingInterval]]]
  IN [ControlError |-> e,
      ControlErrorDerivative |-> d,
      ControlErrorIntegral |-> i,
      ControlSignal |-> FAdd[FAdd[FMul[c.ProportionalGain, e],
                                  FMul[c.IntegralGain, i]],
                             FMul[c.DerivativeGain, d]]]

\* ------------------------------------------------------------------------
\* PIController (pi_controller.go)
\* ------------------------------------------------------------------------
PIControllerState0 == [ControlErrorIntegral |-> 0, ControlSignal |-> 0]

\* mutant: the lower clamp is missing
PIClampIntegral_NoLowerClamp(c, x) == FMin[c.MaxIntegralError, x]

\* max(MinIntegralError, min(MaxIntegralError, x))
PIClampIntegral(c, x) == FMax[c.MinIntegralError, FMin[c.MaxIntegralError, x]]

\* mutant: the signal is saturated to [MinOutput, MaxOutput]
PIControlSignal_Saturated(c, controlError, integral) ==
  FMax[c.MinOutput,
       FMin[c.MaxOutput,
            FAdd[FMul[c.ProportionalGain, controlError],
                 FMul[c.IntegralGain, integral]]]]

\* ProportionalGain*controlError + IntegralGain*ControlErrorIntegral
PIControlSignal(c, controlError, integral) ==
  FAdd[FMul[c.ProportionalGain, controlError], FMul[c.IntegralGain, integral]]

PIControllerUpdate(c, s, input) ==
  LET controlError == FSub[input.ReferenceSignal, input.ActualSignal]
      i == PIClampIntegral(c, FAdd[s.ControlErrorIntegral,
                                   FMul[controlError, seconds[input.SamplingInterval]]])
  IN [ControlErrorIntegral |-> i,
      ControlSignal |-> PIControlSignal(c, controlError, i)]

\* ------------------------------------------------------------------------
\* AntiWindupController and TrackingController
\* ------------------------------------------------------------------------
AntiWindupControllerState0 ==
  [ControlError |-> 0, ControlErrorIntegrand |-> 0, ControlErrorIntegral |-> 0,
   ControlErrorDerivative |-> 0, ControlSignal |-> 0,
   UnsaturatedControlSignal |-> 0]

TrackingControllerState0 == AntiWindupControllerState0

\* mutant: the integrator accumulates the current error
Integrate_CurrentError(s, input) ==
  FAdd[FMul[FSub[input.ReferenceSignal, input.ActualSignal],
            seconds[input.SamplingInterval]],
       s.ControlErrorIntegral]

\* controlErrorIntegral := ControlErrorIntegrand*seconds[dt] + ControlErrorIntegral
Integrate(s, input) ==
  FAdd[FMul[s.ControlErrorIntegrand, seconds[input.SamplingInterval]],
       s.ControlErrorIntegral]

\* controlErrorDerivative: the discretised low-pass filter
FilteredDerivative(c, s, e, input) ==
  FDiv[FAdd[FMul[FDiv[F[1], seconds[c.LowPassTimeConstant]],
                 FSub[e, s.ControlError]],
            s.ControlErrorDerivative],
       FAdd[FDiv[seconds[input.SamplingInterval], seconds[c.LowPassTimeConstant]],
            F[1]]]

\* e*Kp + Ki*controlErrorIntegral + Kd*controlErrorDerivative + FeedForwardSignal
Unsaturated(c, e, integral, derivative, input) ==
  FAdd[FAdd[FAdd[FMul[e, c.ProportionalGain], FMul[c.IntegralGain, integral]],
            FMul[c.DerivativeGain, derivative]],
       input.FeedForwardSignal]

\* mutant: the upper bound is not applied
Saturate_NoUpperBound(c, u) == FMax[c.MinOutput, u]

\* max(MinOutput, min(MaxOutput, UnsaturatedControlSignal))
Saturate(c, u) == FMax[c.MinOutput, FMin[c.MaxOutput, u]]

\* mutant: the anti-windup difference is taken the other way round
Integrand_Reversed(c, e, reached, u) ==
  FAdd[e, FMul[c.AntiWindUpGain, FSub[u, reached]]]

\* mutant: the anti-windup gain is not applied
Integrand_NoGain(c, e, reached, u) == FAdd[e, FSub[reached, u]]

\* e + AntiWindUpGain*(reached - UnsaturatedControlSignal), before its clamp;
\* reached is ControlSignal (anti-windup) or AppliedControlSignal (tracking)
Integrand(c, e, reached, u) == FAdd[e, FMul[c.AntiWindUpGain, FSub[reached, u]]]

\* mutant: stored as computed
Stored_Unclamped(x) == x

\* the value an Update stores into a clamped State field
Stored(x) == ClampFloat32(x)

AntiWindupControllerUpdate(c, s, input) ==
  LET e == FSub[input.ReferenceSignal, input.ActualSignal]
      controlErrorIntegral == Integrate(s, input)
      controlErrorDerivative == FilteredDerivative(c, s, e, input)
      u == Unsaturated(c, e, controlErrorIntegral, controlErrorDerivative, input)
      sig == Saturate(c, u)
  IN [UnsaturatedControlSignal |-> u,
      ControlSignal |-> sig,
      ControlErrorIntegrand |-> Stored(Integrand(c, e, sig, u)),
      ControlErrorIntegral |-> Stored(controlErrorIntegral),
      ControlErrorDerivative |-> Stored(controlErrorDerivative),
      ControlError |-> Stored(e)]

TrackingControllerUpdate(c, s, input) ==
  LET e == FSub[input.ReferenceSignal, input.ActualSignal]
      controlErrorIntegral == Integrate(s, input)
      controlErrorDerivative == FilteredDerivative(c, s, e, input)
      u == Unsaturated(c, e, controlErrorIntegral, controlErrorDerivative, input)
  IN [UnsaturatedControlSignal |-> u,
      ControlSignal |-> Saturate(c, u),
      ControlErrorIntegrand |->
          Stored(Integrand(c, e, input.AppliedControlSignal, u)),
      ControlErrorIntegral |-> Stored(controlErrorIntegral),
      ControlErrorDerivative |-> Stored(controlErrorDerivative),
      ControlError |-> Stored(e)]

\* mutant: the factor is not kept from going negative
DischargeFactor_NoFloor(c, dt) ==
  FMin[FSub[F[1], FDiv[seconds[dt], c.IntegralDischargeTimeConstant]], F[1]]

\* max(0, min(1 - seconds[dt]/IntegralDischargeTimeConstant, 1.0))
DischargeFactor(c, dt) ==
  FMax[0, FMin[FSub[F[1], FDiv[seconds[dt], c.IntegralDischargeTimeConstant]],
               F[1]]]

\* DischargeIntegral, the same code in both controllers
DischargeIntegral(c, s, dt) ==
  [s EXCEPT !.ControlErrorIntegrand = 0,
            !.ControlErrorIntegral = FMul[DischargeFactor(c, dt),
                                          s.ControlErrorIntegral]]

\* the zero value of each State type
ZeroState(k) ==
  CASE k = "Controller" -> ControllerState0
    [] k = "PIController" -> PIControllerState0
    [] k = "AntiWindupController" -> AntiWindupControllerState0
    [] k = "TrackingController" -> TrackingControllerState0

\* mutant: the output is left as it was
Reset_KeepsSignal(k, s) == [ZeroState(k) EXCEPT !.ControlSignal = s.ControlSignal]

\* Reset: c.State = <State type>{}, whatever the State s was
Reset(k, s) == ZeroState(k)

\* ------------------------------------------------------------------------
\* The state machine: one controller instance, driven by its caller
\* ------------------------------------------------------------------------
VARIABLES
  kind,    \* which controller type the instance is
  cfg,     \* its Config
  st,      \* its State
  pre,     \* its State before the last operation
  op,      \* the last operation called on it ("init" before the first)
  inp,     \* the argument of the last operation
  steps,   \* number of operations called so far
  sat      \* the output bound every Update so far has saturated at

vars == <<kind, cfg, st, pre, op, inp, steps, sat>>

MaxSteps == 3        \* operations per behaviour of Spec

Half == Pow2(FracBits - 1)       \* 0.5
Tiny == RoundMag[1, 0]           \* the smallest positive float

ControllerConfigs ==
  { [ProportionalGain |-> F[2], IntegralGain |-> F[1], DerivativeGain |-> F[1]],
    [ProportionalGain |-> F[1], IntegralGain |-> Half, DerivativeGain |-> 0] }

PIControllerConfigs ==
  { [ProportionalGain |-> F[2], IntegralGain |-> F[1],
     MaxIntegralError |-> F[4], MinIntegralError |-> F[-4],
     MaxOutput |-> F[1], MinOutput |-> F[-1]],
    [ProportionalGain |-> F[1], IntegralGain |-> F[2],
     MaxIntegralError |-> F[3], MinIntegralError |-> F[1],
     MaxOutput |-> 0, MinOutput |-> 0] }

AntiWindupControllerConfigs ==
  { [ProportionalGain |-> F[1], IntegralGain |-> F[1], DerivativeGain |-> F[1],
     AntiWindUpGain |-> F[1], IntegralDischargeTimeConstant |-> F[1],
     LowPassTimeConstant |-> Second, MaxOutput |-> F[4], MinOutput |-> F[-4]],
    [ProportionalGain |-> 0, IntegralGain |-> F[1], DerivativeGain |-> 0,
     AntiWindUpGain |-> F[1], IntegralDischargeTimeConstant |-> F[2],
     LowPassTimeConstant |-> Second, MaxOutput |-> 0, MinOutput |-> F[-1]],
    [ProportionalGain |-> F[1], IntegralGain |-> F[1], DerivativeGain |-> 0,
     AntiWindUpGain |-> 0, IntegralDischargeTimeConstant |-> F[1],
     LowPassTimeConstant |-> 500 * Millisecond,
     MaxOutput |-> F[4], MinOutput |-> F[-4]],
    [ProportionalGain |-> F[1], IntegralGain |-> 0, DerivativeGain |-> 0,
     AntiWindUpGain |-> Tiny, IntegralDischargeTimeConstant |-> F[1],
     LowPassTimeConstant |-> Second, MaxOutput |-> F[1], MinOutput |-> F[-1]] }

TrackingControllerConfigs == AntiWindupControllerConfigs

Configs(k) ==
  CASE k = "Controller" -> ControllerConfigs
    [] k = "PIController" -> PIControllerConfigs
    [] k = "AntiWindupController" -> AntiWindupControllerConfigs
    [] k = "TrackingController" -> TrackingControllerConfigs

Kinds == {"Controller", "PIController", "AntiWindupController",
          "TrackingController"}

In3(r, a, dt) ==
  [ReferenceSignal |-> r, ActualSignal |-> a, SamplingInterval |-> dt]
In4(r, a, ff, dt) ==
  [ReferenceSignal |-> r, ActualSignal |-> a, FeedForwardSignal |-> ff,
   SamplingInterval |-> dt]
In5(r, a, ff, ap, dt) ==
  [ReferenceSignal |-> r, ActualSignal |-> a, FeedForwardSignal |-> ff,
   AppliedControlSignal |-> ap, SamplingInterval |-> dt]

\* finite inputs with a positive sampling interval
ControllerInputs ==
  { In3(F[10], 0, 100 * Millisecond), In3(0, F[10], Second),
    In3(F[2], 0, 2 * Second), In3(MaxFloat32, -MaxFloat32, Second) }

\* as above, and a NaN reading
PIControllerInputs ==
  { In3(F[10], 0, Second), In3(0, F[10], 2 * Second),
    In3(F[1], 0, Second), In3(MaxFloat32, -MaxFloat32, Second),
    In3(NaN, 0, Second) }

AntiWindupControllerInputs ==
  { In4(F[2], 0, F[1], 2 * Second), In4(0, F[2], 0, Second),
    In4(F[1], 0, 0, Second), In4(F[10], 0, 0, Second),
    In4(MaxFloat32, -MaxFloat32, 0, Second) }

TrackingControllerInputs ==
  { In5(i.ReferenceSignal, i.ActualSignal, i.FeedForwardSignal, 0,
        i.SamplingInterval) : i \in AntiWindupControllerInputs }
  \cup { In5(F[2], 0, F[1], F[8], 2 * Second) }

DischargeIntervals == {0, 500 * Millisecond, Second, 2 * Second}

NoInput == [none |-> TRUE]

\* the output bound the last Update saturated at
SatSide(c, s) ==
  IF FLt(c.MaxOutput, s.UnsaturatedControlSignal) THEN "high"
  ELSE IF FLt(s.UnsaturatedControlSignal, c.MinOutput) THEN "low"
  ELSE "in"

SatRun(old, c, s) ==
  IF SatSide(c, s) # "in" /\ old \in {"none", SatSide(c, s)}
  THEN SatSide(c, s) ELSE "broken"

Init ==
  /\ kind \in Kinds
  /\ cfg \in Configs(kind)
  /\ st = ZeroState(kind)
  /\ pre = ZeroState(kind)
  /\ op = "init"
  /\ inp = NoInput
  /\ steps = 0
  /\ sat = "none"

Called(name, arg) ==
  /\ pre' = st
  /\ steps' = steps + 1
  /\ op' = name
  /\ inp' = arg
  /\ UNCHANGED <<kind, cfg>>

Controller_Update ==
  /\ kind = "Controller"
  /\ steps < MaxSteps
  /\ \E input \in ControllerInputs :
       /\ st' = ControllerUpdate(cfg, st, input)
       /\ Called("Update", input)
  /\ UNCHANGED sat

Controller_Reset ==
  /\ kind = "Controller"
  /\ steps < MaxSteps
  /\ st' = Reset(kind, st)
  /\ Called("Reset", NoInput)
  /\ UNCHANGED sat

PIController_Update ==
  /\ kind = "PIController"
  /\ steps < MaxSteps
  /\ \E input \in PIControllerInputs :
       /\ st' = PIControllerUpdate(cfg, st, input)
       /\ Called("Update", input)
  /\ UNCHANGED sat

PIController_Reset ==
  /\ kind = "PIController"
  /\ steps < MaxSteps
  /\ st' = Reset(kind, st)
  /\ Called("Reset", NoInput)
  /\ UNCHANGED sat

AntiWindupController_Update ==
  /\ kind = "AntiWindupController"
  /\ steps < MaxSteps
  /\ \E input \in AntiWindupControllerInputs :
       /\ st' = AntiWindupControllerUpdate(cfg, st, input)
       /\ Called("Update", input)
  /\ sat' = SatRun(sat, cfg, st')

AntiWindupController_DischargeIntegral ==
  /\ kind = "AntiWindupController"
  /\ steps < MaxSteps
  /\ \E dt \in DischargeIntervals :
       /\ st' = DischargeIntegral(cfg, st, dt)
       /\ Called("DischargeIntegral", [dt |-> dt])
  /\ sat' = "broken"

AntiWindupController_Reset ==
  /\ kind = "AntiWindupController"
  /\ steps < MaxSteps
  /\ st' = Reset(kind, st)
  /\ Called("Reset", NoInput)
  /\ sat' = "broken"

TrackingController_Update ==
  /\ kind = "TrackingController"
  /\ steps < MaxSteps
  /\ \E input \in TrackingControllerInputs :
       /\ st' = TrackingControllerUpdate(cfg, st, input)
       /\ Called("Update", input)
  /\ sat' = SatRun(sat, cfg, st')

TrackingController_DischargeIntegral ==
  /\ kind = "TrackingController"
  /\ steps < MaxSteps
  /\ \E dt \in DischargeIntervals :
       /\ st' = DischargeIntegral(cfg, st, dt)
       /\ Called("DischargeIntegral", [dt |-> dt])
  /\ sat' = "broken"

TrackingController_Reset ==
  /\ kind = "TrackingController"
  /\ steps < MaxSteps
  /\ st' = Reset(kind, st)
  /\ Called("Reset", NoInput)
  /\ sat' = "broken"

Next ==
  \/ Controller_Update
  \/ Controller_Reset
  \/ PIController_Update
  \/ PIController_Reset
  \/ AntiWindupController_Update
  \/ AntiWindupController_DischargeIntegral
  \/ AntiWindupController_Reset
  \/ TrackingController_Update
  \/ TrackingController_DischargeIntegral
  \/ TrackingController_Reset

Spec == Init /\ [][Next]_vars

\* ------------------------------------------------------------------------
\* A control loop that holds its input: the caller picks one input and calls
\* Update with it on every cycle, for ever.
\* ------------------------------------------------------------------------
HoldInit ==
  /\ kind \in {"AntiWindupController", "TrackingController"}
  /\ cfg \in Configs(kind)
  /\ st = ZeroState(kind)
  /\ pre = ZeroState(kind)
  /\ op = "init"
  /\ inp \in (IF kind = "AntiWindupController"
              THEN AntiWindupControllerInputs ELSE TrackingControllerInputs)
  /\ steps = 0
  /\ sat = "none"

AntiWindupController_HoldUpdate ==
  /\ kind = "AntiWindupController"
  /\ st' = AntiWindupControllerUpdate(cfg, st, inp)
  /\ pre' = st
  /\ op' = "Update"
  /\ sat' = SatRun(sat, cfg, st')
  /\ UNCHANGED <<kind, cfg, inp, steps>>

TrackingController_HoldUpdate ==
  /\ kind = "TrackingController"
  /\ st' = TrackingControllerUpdate(cfg, st, inp)
  /\ pre' = st
  /\ op' = "Update"
  /\ sat' = SatRun(sat, cfg, st')
  /\ UNCHANGED <<kind, cfg, inp, steps>>

HoldNext ==
  \/ AntiWindupController_HoldUpdate
  \/ TrackingController_HoldUpdate

\* the loop never stops calling Update
HoldSpec == HoldInit /\ [][HoldNext]_vars /\ WF_vars(HoldNext)

\* ------------------------------------------------------------------------
\* Properties
\* ------------------------------------------------------------------------
Advanced == kind \in {"AntiWindupController", "TrackingController"}

Updated(k) == kind = k /\ op = "Update"

WithinOutput(c, x) == FLe(c.MinOutput, x) /\ FLe(x, c.MaxOutput)

\* the control error of the last Update, reference - actual, before storing
InputError == FSub[inp.ReferenceSignal, inp.ActualSignal]

\* C1 as stated: after every Update of an anti-windup or tracking controller
\* ControlSignal lies in [MinOutput, MaxOutput], and equals
\* UnsaturatedControlSignal whenever that lies in [MinOutput, MaxOutput].
C1_AlwaysWithinOutput ==
  (Advanced /\ op = "Update") =>
     /\ WithinOutput(cfg, st.ControlSignal)
     /\ WithinOutput(cfg, st.UnsaturatedControlSignal)
          => st.ControlSignal = st.UnsaturatedControlSignal

\* C1 amended: the same, for every Update whose UnsaturatedControlSignal is
\* not NaN; a NaN UnsaturatedControlSignal gives a NaN ControlSignal.
C1_WithinOutputUnlessNaN ==
  (Advanced /\ op = "Update") =>
     /\ ~IsNaN(st.UnsaturatedControlSignal)
          => WithinOutput(cfg, st.ControlSignal)
     /\ WithinOutput(cfg, st.UnsaturatedControlSignal)
          => st.ControlSignal = st.UnsaturatedControlSignal
     /\ IsNaN(st.UnsaturatedControlSignal) => IsNaN(st.ControlSignal)

\* an Update whose unsaturated signal exceeded MaxOutput and was saturated
C1_Saturated ==
  /\ Advanced /\ op = "Update"
  /\ FLt(cfg.MaxOutput, st.UnsaturatedControlSignal)
  /\ st.ControlSignal = cfg.MaxOutput

\* C2 as stated: after every Update of a PIController the integral lies in
\* [MinIntegralError, MaxIntegralError].
C2_IntegralAlwaysWithin ==
  Updated("PIController") =>
     /\ FLe(cfg.MinIntegralError, st.ControlErrorIntegral)
     /\ FLe(st.ControlErrorIntegral, cfg.MaxIntegralError)

\* the sum the last PIController.Update clamped
PISum == FAdd[pre.ControlErrorIntegral,
              FMul[InputError, seconds[inp.SamplingInterval]]]

\* C2 amended: the contribution error*dt is added first and the sum is then
\* clamped, so the integral lies in [MinIntegralError, MaxIntegralError]
\* after every Update whose sum is not NaN; a NaN sum is stored as NaN.
C2_IntegralWithinUnlessNaN ==
  Updated("PIController") =>
     IF IsNaN(PISum) THEN IsNaN(st.ControlErrorIntegral)
     ELSE /\ FLe(cfg.MinIntegralError, st.ControlErrorIntegral)
          /\ FLe(st.ControlErrorIntegral, cfg.MaxIntegralError)
          /\ st.ControlErrorIntegral =
               (IF PISum > cfg.MaxIntegralError THEN cfg.MaxIntegralError
                ELSE IF PISum < cfg.MinIntegralError THEN cfg.MinIntegralError
                ELSE PISum)

\* an Update whose sum exceeded MaxIntegralError and was clamped to it
C2_Clamped ==
  /\ Updated("PIController")
  /\ FLt(cfg.MaxIntegralError, PISum)
  /\ st.ControlErrorIntegral = cfg.MaxIntegralError

\* C3 as stated: with finite inputs no field of the State of an anti-windup
\* or tracking controller ever is +Inf or -Inf.
C3_AllFieldsFinite ==
  Advanced => \A f \in DOMAIN st : ~IsInf(st[f])

ClampedFields == {"ControlError", "ControlErrorIntegrand",
                  "ControlErrorIntegral", "ControlErrorDerivative"}

\* C3 amended: the four fields stored through the clamp (ControlError,
\* ControlErrorIntegrand, ControlErrorIntegral, ControlErrorDerivative) and
\* the saturated ControlSignal never are +Inf or -Inf, and a value that
\* overflowed is stored as +MaxFloat32 or -MaxFloat32.
C3_ClampedFieldsFinite ==
  Advanced =>
     /\ \A f \in ClampedFields \cup {"ControlSignal"} : ~IsInf(st[f])
     /\ (op = "Update" /\ InputError = PosInf) => st.ControlError = MaxFloat32
     /\ (op = "Update" /\ InputError = NegInf) => st.ControlError = -MaxFloat32

\* an Update whose error overflowed and was stored as MaxFloat32, while the
\* derivative overflowed as well
C3_Overflowed ==
  /\ Advanced /\ op = "Update"
  /\ InputError = PosInf
  /\ st.ControlError = MaxFloat32
  /\ st.ControlErrorDerivative = MaxFloat32

\* C4: in every controller type and from any reachable state, Reset makes
\* every State field zero and leaves Config as it is, and a Reset right after
\* a Reset changes nothing.
C4_ResetZeroes ==
  [][ /\ op' = "Reset" => /\ \A f \in DOMAIN st' : st'[f] = 0
                          /\ DOMAIN st' = DOMAIN st
                          /\ cfg' = cfg
      /\ (op = "Reset" /\ op' = "Reset") => st' = st ]_vars

\* a Reset of a State that had a nonzero field
C4_ResetOfNonzero ==
  /\ op = "Reset"
  /\ \E f \in DOMAIN pre : pre[f] # 0
  /\ \A f \in DOMAIN st : st[f] = 0

Discharged == Advanced /\ op = "DischargeIntegral"

\* the factor of the last DischargeIntegral, 1 - dt/T, before its clamp
RawDischargeFactor ==
  FSub[F[1], FDiv[seconds[inp.dt], cfg.IntegralDischargeTimeConstant]]

\* what C5 says of a DischargeIntegral(dt) with time constant T > 0, apart
\* from the integral after dt >= T
DischargeScales ==
  /\ st.ControlErrorIntegrand = 0
  /\ inp.dt = 0 => st.ControlErrorIntegral = pre.ControlErrorIntegral
  /\ (FLt(0, RawDischargeFactor) /\ FLt(RawDischargeFactor, F[1]))
       => st.ControlErrorIntegral =
            FMul[RawDischargeFactor, pre.ControlErrorIntegral]
  /\ ~FLt(Abs(pre.ControlErrorIntegral), Abs(st.ControlErrorIntegral))
  /\ ~(FLt(st.ControlErrorIntegral, 0) /\ FLt(0, pre.ControlErrorIntegral))
  /\ ~(FLt(0, st.ControlErrorIntegral) /\ FLt(pre.ControlErrorIntegral, 0))
  /\ \A f \in DOMAIN st \ {"ControlErrorIntegrand", "ControlErrorIntegral"} :
       st[f] = pre[f]

\* C5 as stated: DischargeIntegral(dt) zeroes the integrand and scales the
\* integral by clamp(1 - dt/T, 0, 1): to exactly 0 when dt >= T, unchanged
\* when dt = 0, linearly in between, never changing its sign or growing it.
C5_DischargeToZero ==
  (Discharged /\ FLt(0, cfg.IntegralDischargeTimeConstant)) =>
     /\ DischargeScales
     /\ FLe(cfg.IntegralDischargeTimeConstant, seconds[inp.dt])
          => st.ControlErrorIntegral = 0

\* C5 amended: the same, except that dt >= T drives the integral to exactly
\* 0 only when it is not NaN: a NaN integral stays NaN.
C5_DischargeUnlessNaN ==
  (Discharged /\ FLt(0, cfg.IntegralDischargeTimeConstant)) =>
     /\ DischargeScales
     /\ FLe(cfg.IntegralDischargeTimeConstant, seconds[inp.dt])
          => IF IsNaN(pre.ControlErrorIntegral)
             THEN IsNaN(st.ControlErrorIntegral)
             ELSE st.ControlErrorIntegral = 0

\* a DischargeIntegral that halved a nonzero integral
C5_Halved ==
  /\ Discharged
  /\ RawDischargeFactor = Half
  /\ IsFinite(pre.ControlErrorIntegral) /\ pre.ControlErrorIntegral # 0
  /\ FAdd[st.ControlErrorIntegral, st.ControlErrorIntegral]
       = pre.ControlErrorIntegral

\* C7: Controller.Update sets ControlError = reference - actual,
\* ControlErrorDerivative = (error - previous error)/dt, ControlErrorIntegral
\* = previous integral + error*dt and ControlSignal = Kp*error + Ki*integral
\* + Kd*derivative, unsaturated; from the zero State with reference 10,
\* actual 0, Kp 2, Ki 1, Kd 1 and dt 0.1s that is error 10, integral 1,
\* derivative 100, signal 121.
C7_ControllerUpdate ==
  Updated("Controller") =>
     LET dt == seconds[inp.SamplingInterval] IN
     /\ st.ControlError = InputError
     /\ st.ControlErrorDerivative =
          FDiv[FSub[st.ControlError, pre.ControlError], dt]
     /\ st.ControlErrorIntegral =
          FAdd[pre.ControlErrorIntegral, FMul[st.ControlError, dt]]
     /\ st.ControlSignal =
          FAdd[FAdd[FMul[cfg.ProportionalGain, st.ControlError],
                    FMul[cfg.IntegralGain, st.ControlErrorIntegral]],
               FMul[cfg.DerivativeGain, st.ControlErrorDerivative]]
     /\ ( /\ pre = ControllerState0
          /\ inp = In3(F[10], 0, 100 * Millisecond)
          /\ cfg = [ProportionalGain |-> F[2], IntegralGain |-> F[1],
                    DerivativeGain |-> F[1]] )
        => st = [ControlError |-> F[10], ControlErrorIntegral |-> F[1],
                 ControlErrorDerivative |-> F[100], ControlSignal |-> F[121]]

\* the README example: one Update from the zero State
C7_Example ==
  /\ Updated("Controller")
  /\ pre = ControllerState0
  /\ inp = In3(F[10], 0, 100 * Millisecond)
  /\ cfg.ProportionalGain = F[2] /\ cfg.IntegralGain = F[1]
  /\ cfg.DerivativeGain = F[1]
  /\ st.ControlSignal = F[121]

OtherOutputBounds == {<<0, 0>>, <<F[-1], F[1]>>, <<F[-100], F[100]>>}

UpdateInputs ==
  IF kind = "AntiWindupController" THEN AntiWindupControllerInputs
  ELSE TrackingControllerInputs

UpdateOf(c, s, input) ==
  IF kind = "AntiWindupController" THEN AntiWindupControllerUpdate(c, s, input)
  ELSE TrackingControllerUpdate(c, s, input)

C10_IntegrandShifted ==
  Updated("AntiWindupController") =>
     /\ WithinOutput(cfg, st.UnsaturatedControlSignal)
          => st.ControlErrorIntegrand = InputError
     /\ (FLt(0, cfg.AntiWindUpGain)
         /\ FLt(cfg.MaxOutput, st.UnsaturatedControlSignal))
          => FLt(st.ControlErrorIntegrand, InputError)
     /\ (FLt(0, cfg.AntiWindUpGain)
         /\ FLt(st.UnsaturatedControlSignal, cfg.MinOutput))
          => FLt(InputError, st.ControlErrorIntegrand)

\* C10 amended: equal to the plain error when the output does not saturate;
\* when it saturates and AntiWindUpGain > 0 the stored integrand is NaN or
\* not above the error (at MaxOutput), not below it (at MinOutput): the
\* shift can be lost to rounding, and is NaN when the error overflowed.
C10_IntegrandNotBeyondError ==
  Updated("AntiWindupController") =>
     /\ st.ControlErrorIntegrand =
          ClampFloat32(FAdd[InputError,
                            FMul[cfg.AntiWindUpGain,
                                 FSub[st.ControlSignal,
                                      st.UnsaturatedControlSignal]]])
     /\ WithinOutput(cfg, st.UnsaturatedControlSignal)
          => st.ControlErrorIntegrand = InputError
     /\ (FLt(0, cfg.AntiWindUpGain)
         /\ FLt(cfg.MaxOutput, st.UnsaturatedControlSignal))
          => (IsNaN(st.ControlErrorIntegrand)
              \/ FLe(st.ControlErrorIntegrand, InputError))
     /\ (FLt(0, cfg.AntiWindUpGain)
         /\ FLt(st.UnsaturatedControlSignal, cfg.MinOutput))
          => (IsNaN(st.ControlErrorIntegrand)
              \/ FLe(InputError, st.ControlErrorIntegrand))

\* an Update that saturated at MaxOutput and stored an integrand below the
\* error
C10_ShiftedBelow ==
  /\ Updated("AntiWindupController")
  /\ FLt(0, cfg.AntiWindUpGain)
  /\ FLt(cfg.MaxOutput, st.UnsaturatedControlSignal)
  /\ FLt(st.ControlErrorIntegrand, InputError)

AppliedWithinOutput ==
  kind = "TrackingController" => WithinOutput(cfg, inp.AppliedControlSignal)

\* the integral the next Update would store if the integrand were the plain
\* error, that is without the anti-windup term
PlainNextIntegral ==
  ClampFloat32(FAdd[FMul[st.ControlError, seconds[inp.SamplingInterval]],
                    st.ControlErrorIntegral])

====
